---- MODULE Spec2Model ----
(***************************************************************************)
(* Model of humg.py: the two schema parsers (Alto4Parser, Page2019Parser), *)
(* the normalization filter and the aggregation loop of run().             *)
(*                                                                         *)
(* A Python str is a sequence of code points; a code point is a one-       *)
(* element TLA+ string ("a", " ", ";"), or a name for a code point outside *)
(* ASCII: "U0301" (combining acute accent), "U00E1" (a with acute),        *)
(* "U00A0" (no-break space), "TAB".                                        *)
(* An attribute dictionary (lxml attrib) is a function from attribute      *)
(* names to strings; an absent attribute is absent from its DOMAIN.        *)
(* A Counter is a function from keys to positive integers.                 *)
(***************************************************************************)
EXTENDS Integers, Sequences, FiniteSets, TLC

\* ------------------------------------------------------------------ bounds
MaxFiles == 2      \* number of file arguments of one run
MaxFrag == 3       \* fragments of a custom attribute payload
MaxText == 3       \* code points of one line's text
MaxLines == 2      \* elements / text values of one enumerated document

\* --------------------------------------------------------------- constants
UNKNOWN_SEGMENT_TYPE == <<"N", "o", "t", " ", "s", "p", "e", "c", "i", "f", "i", "e", "d">>

\* the default of line.attrib.get("TAGREFS", "####")
TAGREFS_DEFAULT == <<"#", "#", "#", "#">>

\* the literals of _handle_custom_type
CUSTOM_PREFIX == <<"s", "t", "r", "u", "c", "t", "u", "r", "e", " ", "{", "t", "y", "p", "e", ":">>
CUSTOM_SUFFIX == <<";", "}">>

\* click.Choice(["NFC", "NFKC", "NFD", "NFKD"]) and the default None
NormalizationForms == {"None", "NFC", "NFKC", "NFD", "NFKD"}

\* ------------------------------------------------------------ Python str
\* s.replace(old, ""): non-overlapping occurrences of old, found left to
\* right in one pass, are removed; the result is not scanned again.
IsPrefix(old, s) == Len(old) <= Len(s) /\ SubSeq(s, 1, Len(old)) = old

\* s.find(old) + 1: the position of the leftmost occurrence, 0 if none
FindFirst(s, old) ==
    LET at == {i \in 1..(Len(s) - Len(old) + 1) : SubSeq(s, i, i + Len(old) - 1) = old}
    IN IF at = {} THEN 0 ELSE CHOOSE i \in at : \A j \in at : i <= j

RECURSIVE str_remove(_, _)
str_remove(s, old) ==
    LET i == FindFirst(s, old)
    IN IF i = 0 THEN s
       ELSE SubSeq(s, 1, i - 1) \o str_remove(SubSeq(s, i + Len(old), Len(s)), old)

\* str.isspace() for the code points of the model
IsSpace(ch) == ch \in {" ", "TAB", "U00A0"}

RECURSIVE lstrip(_)
lstrip(s) == IF s # <<>> /\ IsSpace(Head(s)) THEN lstrip(Tail(s)) ELSE s

RECURSIVE rstrip(_)
rstrip(s) ==
    IF s # <<>> /\ IsSpace(s[Len(s)]) THEN rstrip(SubSeq(s, 1, Len(s) - 1)) ELSE s

\* s.strip()
strip(s) == rstrip(lstrip(s))

\* "".join(list)
RECURSIVE join(_)
join(list) ==
    IF Len(list) = 0 THEN <<>>
    ELSE IF Len(list) = 1 THEN list[1]
    ELSE LET m == Len(list) \div 2
         IN join(SubSeq(list, 1, m)) \o join(SubSeq(list, m + 1, Len(list)))

\* d.get(key, default)
dict_get(d, key, default) == IF key \in DOMAIN d THEN d[key] ELSE default

\* --------------------------------------------------------------- Counter
EmptyCounter == [k \in {} |-> 0]

\* Counter(iterable): each distinct element with its number of occurrences
Counter(list) ==
    [k \in {list[i] : i \in 1..Len(list)} |->
        Cardinality({i \in 1..Len(list) : list[i] = k})]

\* the value of a after a.update(b)
CounterOverwrite(a, b) ==
    [k \in DOMAIN a \cup DOMAIN b |-> IF k \in DOMAIN b THEN b[k] ELSE a[k]]

Counter_update(a, b) ==
    [k \in DOMAIN a \cup DOMAIN b |-> dict_get(a, k, 0) + dict_get(b, k, 0)]

\* sum(counter.values())
RECURSIVE SumOver(_, _)
SumOver(cnt, D) ==
    IF D = {} THEN 0
    ELSE LET k == CHOOSE x \in D : TRUE IN cnt[k] + SumOver(cnt, D \ {k})

sum_values(cnt) == SumOver(cnt, DOMAIN cnt)

\* -------------------------------------------------- unicodedata.normalize
\* The decomposition mappings of the model's code points: U+00E1 has the
\* canonical decomposition <U+0061, U+0301>; U+00A0 has the compatibility
\* decomposition <U+0020>; the others have none.
DecompositionMapping(ch, compat) ==
    IF ch = "U00E1" THEN <<"a", "U0301">>
    ELSE IF compat /\ ch = "U00A0" THEN <<" ">>
    ELSE <<ch>>

Decompose(s, compat) ==
    join([i \in 1..Len(s) |-> DecompositionMapping(s[i], compat)])

\* Canonical composition: the only primary composite of the model's code
\* points is <U+0061, U+0301> -> U+00E1, so a starter "a" directly followed
\* by U+0301 becomes U+00E1 and that U+0301 goes.
Compose(s) ==
    LET marked == [i \in 1..Len(s) |->
                     IF s[i] = "a" /\ i < Len(s) /\ s[i + 1] = "U0301" THEN "U00E1"
                     ELSE IF s[i] = "U0301" /\ i > 1 /\ s[i - 1] = "a" THEN ""
                     ELSE s[i]]
        Kept(ch) == ch # ""
    IN SelectSeq(marked, Kept)

unicodedata_normalize(form, s) ==
    CASE form = "NFD" -> Decompose(s, FALSE)
      [] form = "NFKD" -> Decompose(s, TRUE)
      [] form = "NFC" -> Compose(Decompose(s, FALSE))
      [] form = "NFKC" -> Compose(Decompose(s, TRUE))

\* Parser.normalize
normalize(nf, string) ==
    IF nf # "None" THEN unicodedata_normalize(nf, string)
    ELSE string

\* [self.normalize(str(line)) for line in values]
NormalizeEach(nf, values) == [i \in 1..Len(values) |-> normalize(nf, values[i])]

\* ------------------------------------------------------------- documents
\* A document is what etree.parse reads from a file: wf (the file is
\* well-formed XML), OtherTag (the tag declarations, ALTO only), TextLine
\* (the line elements: attrib, and content, the CONTENT values of the
\* line's String children in ALTO, the texts of its TextEquiv/Unicode
\* elements in PAGE), Region (the TextBlock / TextRegion elements).
NoAttrib == [k \in {} |-> <<>>]

\* the values of an xpath over all lines, in document order
AllContent(doc) == join([i \in 1..Len(doc.TextLine) |-> doc.TextLine[i].content])

\* ------------------------------------------------------------ Alto4Parser
\* etree.parse raises on a file that is not well-formed; node.attrib["ID"]
\* and node.attrib["LABEL"] raise KeyError on an OtherTag without them.
Alto_parse_raises(doc) ==
    \/ ~doc.wf
    \/ \E i \in 1..Len(doc.OtherTag) :
          ~({"ID", "LABEL"} \subseteq DOMAIN doc.OtherTag[i].attrib)

\* the dict comprehension of parse: a later declaration of an ID replaces
\* an earlier one
RECURSIVE LabelsFrom(_, _)
LabelsFrom(table, nodes) ==
    IF nodes = <<>> THEN table
    ELSE LabelsFrom([k \in DOMAIN table \cup {Head(nodes).attrib.ID} |->
                        IF k = Head(nodes).attrib.ID THEN Head(nodes).attrib.LABEL
                        ELSE table[k]],
                    Tail(nodes))

\* the table a parse carries over from the parser's earlier _labels
LabelsMerged(old, doc) == LabelsFrom(old, doc.OtherTag)

\* the value of self._labels after parse(filepath), given its value before
Alto_parse_labels(old, doc) == LabelsFrom(NoAttrib, doc.OtherTag)

\* resolving through the default key when the reference is not in the table
ResolveChained(table, attrib) ==
    IF "TAGREFS" \in DOMAIN attrib /\ attrib.TAGREFS \in DOMAIN table
    THEN table[attrib.TAGREFS]
    ELSE dict_get(table, TAGREFS_DEFAULT, UNKNOWN_SEGMENT_TYPE)

\* self._labels.get(line.attrib.get("TAGREFS", "####"), UNKNOWN_SEGMENT_TYPE)
Alto_resolve(table, attrib) ==
    dict_get(table, dict_get(attrib, "TAGREFS", TAGREFS_DEFAULT), UNKNOWN_SEGMENT_TYPE)

Alto_get_lines(doc, table) ==
    Counter([i \in 1..Len(doc.TextLine) |-> Alto_resolve(table, doc.TextLine[i].attrib)])

Alto_get_regions(doc, table) ==
    Counter([i \in 1..Len(doc.Region) |-> Alto_resolve(table, doc.Region[i].attrib)])

\* space stripping before the normalization of the whole text
CharsStripThenNormalize(doc, nf) ==
    Counter(normalize(nf, str_remove(join(AllContent(doc)), <<" ">>)))

\* str(line) of an xpath attribute result is the attribute's value
Alto_get_chars(doc, nf) ==
    Counter(str_remove(join(NormalizeEach(nf, AllContent(doc))), <<" ">>))

\* --------------------------------------------------------- Page2019Parser
Page_parse_raises(doc) == ~doc.wf

\* value.replace("structure {type:", "").replace(";}", "").strip()
handle_custom_type(value) ==
    strip(str_remove(str_remove(value, CUSTOM_PREFIX), CUSTOM_SUFFIX))

Page_label(attrib) ==
    handle_custom_type(dict_get(attrib, "custom", UNKNOWN_SEGMENT_TYPE))

Page_get_lines(doc) ==
    Counter([i \in 1..Len(doc.TextLine) |-> Page_label(doc.TextLine[i].attrib)])

Page_get_regions(doc) ==
    Counter([i \in 1..Len(doc.Region) |-> Page_label(doc.Region[i].attrib)])

\* findall(...) returns the Unicode elements; str(element) is lxml's repr
\* of the element, "<Element {namespace}Unicode at 0x<id>>", where id is
\* the address of the element's proxy object.
PAGE_UNICODE_TAG ==
    <<"{", "h", "t", "t", "p", ":", "/", "/", "s", "c", "h", "e", "m", "a", ".", "p", "r",
      "i", "m", "a", "r", "e", "s", "e", "a", "r", "c", "h", ".", "o", "r", "g", "/", "P",
      "A", "G", "E", "/", "g", "t", "s", "/", "p", "a", "g", "e", "c", "o", "n", "t", "e",
      "n", "t", "/", "2", "0", "1", "9", "-", "0", "7", "-", "1", "5", "}", "U", "n", "i",
      "c", "o", "d", "e">>

ElementStr(tag, addr) ==
    <<"<", "E", "l", "e", "m", "e", "n", "t", " ">> \o tag
       \o <<" ", "a", "t", " ", "0", "x">> \o addr \o <<">">>

\* the addresses an element proxy may get (hexadecimal digits of id())
Addresses == {<<"7", "f", "3", "a">>, <<"7", "f", "3", "b">>}

\* addrs[i] is the address of the i-th Unicode element
Page_get_chars(doc, nf, addrs) ==
    Counter(str_remove(
        join(NormalizeEach(nf, [i \in 1..Len(AllContent(doc)) |->
                                    ElementStr(PAGE_UNICODE_TAG, addrs[i])])),
        <<" ">>))

\* ------------------------------------------------------- os.path.dirname
\* posixpath.dirname: the head up to the last "/", without its trailing
\* slashes unless it consists of slashes only
LastSlash(p) ==
    IF \E i \in 1..Len(p) : p[i] = "/"
    THEN CHOOSE i \in 1..Len(p) : p[i] = "/" /\ \A j \in (i + 1)..Len(p) : p[j] # "/"
    ELSE 0

RECURSIVE rstrip_slash(_)
rstrip_slash(p) ==
    IF p # <<>> /\ p[Len(p)] = "/" THEN rstrip_slash(SubSeq(p, 1, Len(p) - 1)) ELSE p

dirname(p) ==
    LET head == SubSeq(p, 1, LastSlash(p))
    IN IF head # <<>> /\ \E i \in 1..Len(head) : head[i] # "/"
       THEN rstrip_slash(head) ELSE head

\* ------------------------------------------------------------ the files
\* File names (the FILES arguments) and the documents they hold.
S_T1 == <<"T", "1">>
S_T2 == <<"T", "2">>
S_T9 == <<"T", "9">>
S_heading == <<"h", "e", "a", "d", "i", "n", "g">>
S_default == <<"d", "e", "f", "a", "u", "l", "t">>
S_marginalia == <<"m", "a", "r", "g", "i", "n", "a", "l", "i", "a">>
S_abc == <<"a", " ", "b", " ", "c">>
S_custom_default == CUSTOM_PREFIX \o S_default \o <<" ">> \o CUSTOM_SUFFIX
S_custom_marginalia == CUSTOM_PREFIX \o S_marginalia \o <<" ">> \o CUSTOM_SUFFIX

F_da == <<"d", "/", "a">>
F_db == <<"d", "/", "b">>
F_ea == <<"e", "/", "a">>
F_eb == <<"e", "/", "b">>
F_b == <<"b">>

AltoFiles == {F_da, F_db, F_ea, F_eb, F_b}
PageFiles == {F_da, F_db, F_ea, F_eb}

Element(attrib) == [attrib |-> attrib]
Line(attrib, content) == [attrib |-> attrib, content |-> content]

AltoFileSystem(name) ==
    CASE name = F_da ->
           [wf |-> TRUE,
            OtherTag |-> <<Element([ID |-> S_T1, LABEL |-> S_heading])>>,
            TextLine |-> <<Line([TAGREFS |-> S_T1], <<S_abc>>)>>,
            Region |-> <<Element([TAGREFS |-> S_T1])>>]
      [] name = F_db ->
           [wf |-> TRUE,
            OtherTag |-> <<Element([ID |-> TAGREFS_DEFAULT, LABEL |-> S_default]),
                           Element([ID |-> S_T2, LABEL |-> S_marginalia])>>,
            TextLine |-> <<Line(NoAttrib, <<<<"U00E1">>>>),
                           Line([TAGREFS |-> S_T1], <<<<"a">>, <<"U0301", "U00A0">>>>),
                           Line([TAGREFS |-> S_T2], <<>>)>>,
            Region |-> <<Element(NoAttrib), Element([TAGREFS |-> S_T9])>>]
      [] name = F_ea ->
           [wf |-> TRUE, OtherTag |-> <<>>, TextLine |-> <<>>, Region |-> <<>>]
      [] name = F_eb ->
           [wf |-> FALSE, OtherTag |-> <<>>, TextLine |-> <<>>, Region |-> <<>>]
      [] name = F_b ->
           [wf |-> TRUE,
            OtherTag |-> <<Element([ID |-> S_T1])>>,
            TextLine |-> <<Line([TAGREFS |-> S_T1], <<<<"a">>>>)>>,
            Region |-> <<>>]

PageFileSystem(name) ==
    CASE name = F_da ->
           [wf |-> TRUE, OtherTag |-> <<>>,
            TextLine |-> <<Line([custom |-> S_custom_default], <<S_abc>>)>>,
            Region |-> <<Element([custom |-> S_custom_marginalia])>>]
      [] name = F_db ->
           [wf |-> TRUE, OtherTag |-> <<>>,
            TextLine |-> <<Line(NoAttrib, <<<<"a", "U00A0">>>>),
                           Line([custom |-> S_custom_default], <<>>)>>,
            Region |-> <<Element(NoAttrib), Element([custom |-> S_custom_marginalia])>>]
      [] name = F_ea ->
           [wf |-> TRUE, OtherTag |-> <<>>, TextLine |-> <<>>, Region |-> <<>>]
      [] name = F_eb ->
           [wf |-> FALSE, OtherTag |-> <<>>, TextLine |-> <<>>, Region |-> <<>>]

\* etree.parse(file_name) under the parser chosen by --parse
ReadFile(which, name) ==
    IF which = "alto" THEN AltoFileSystem(name) ELSE PageFileSystem(name)

\* the sequences over S of length at most n
SeqUpTo(S, n) == UNION {[1..m -> S] : m \in 0..n}

\* ------------------------------------------------------------------ state
VARIABLES
    files,          \* the FILES arguments, in order
    parse,          \* --parse: "alto" or "page"
    group,          \* --group
    normalization,  \* --normalization, "None" when not given
    idx,            \* position of the for loop in files, from 1
    pc,             \* "loop", "get_lines", "get_chars", "get_regions", "update",
                    \* "done" (past the loop), "aborted" (an exception left run)
    failed,         \* the call that raised, "" if none
    xml,            \* the document parser.parse returned
    labels,         \* parser._labels
    stack,          \* results of line 195's calls evaluated so far
    l, c, r,        \* the loop's l, c, r
    total_chars, total_lines, total_regns,
    group_chars, group_lines, group_regns,
    before,         \* the six counters as they were when the current file began
    runNo,          \* 1, or 2 for the run over the permuted arguments
    first,          \* the counters at the end of run 1
    arg, ret, fpc   \* a single call of a parser method: argument, result, position

opts == <<files, parse, group, normalization>>
locals == <<xml, labels, stack, l, c, r>>
totals == <<total_chars, total_lines, total_regns>>
groups == <<group_chars, group_lines, group_regns>>
calls == <<arg, ret, fpc>>
vars == <<opts, idx, pc, failed, locals, totals, groups, before, runNo, first, calls>>

NoDoc == [wf |-> TRUE, OtherTag |-> <<>>, TextLine |-> <<>>, Region |-> <<>>]

Snapshot ==
    [total_chars |-> total_chars, total_lines |-> total_lines, total_regns |-> total_regns,
     group_chars |-> group_chars, group_lines |-> group_lines, group_regns |-> group_regns]

\* lines 178-191: the parser and the empty counters
RunStart ==
    /\ idx = 1 /\ pc = "loop" /\ failed = ""
    /\ xml = NoDoc /\ labels = NoAttrib /\ stack = <<>>
    /\ l = EmptyCounter /\ c = EmptyCounter /\ r = EmptyCounter
    /\ total_chars = EmptyCounter /\ total_lines = EmptyCounter
    /\ total_regns = EmptyCounter
    /\ group_chars = NoAttrib /\ group_lines = NoAttrib /\ group_regns = NoAttrib
    /\ before = Snapshot

Init ==
    /\ parse \in {"alto", "page"}
    /\ files \in SeqUpTo(IF parse = "alto" THEN AltoFiles ELSE PageFiles, MaxFiles)
    /\ group \in BOOLEAN
    /\ normalization \in NormalizationForms
    /\ RunStart
    /\ runNo = 1 /\ first = Snapshot
    /\ arg = <<>> /\ ret = <<>> /\ fpc = "idle"

\* line 194: xml = parser.parse(file_name); an exception leaves run()
parser_parse ==
    /\ pc = "loop" /\ idx <= Len(files)
    /\ LET doc == ReadFile(parse, files[idx])
           raises == IF parse = "alto" THEN Alto_parse_raises(doc)
                     ELSE Page_parse_raises(doc)
       IN IF raises
          THEN /\ pc' = "aborted" /\ failed' = "parse"
               /\ UNCHANGED <<xml, labels>>
          ELSE /\ pc' = "get_lines" /\ failed' = failed
               /\ xml' = doc
               /\ labels' = IF parse = "alto" THEN Alto_parse_labels(labels, doc)
                            ELSE labels
    /\ before' = Snapshot
    /\ UNCHANGED <<opts, idx, stack, l, c, r, totals, groups, runNo, first, calls>>

\* get_lines whose result is added to total_lines at once
parser_get_lines_eager ==
    /\ pc = "get_lines"
    /\ LET got == IF parse = "alto" THEN Alto_get_lines(xml, labels)
                  ELSE Page_get_lines(xml)
       IN /\ stack' = <<got>>
          /\ total_lines' = Counter_update(total_lines, got)
    /\ pc' = "get_chars"
    /\ UNCHANGED <<opts, idx, failed, xml, labels, l, c, r, total_chars, total_regns,
                   groups, before, runNo, first, calls>>

\* line 195, first call
parser_get_lines ==
    /\ pc = "get_lines"
    /\ stack' = <<IF parse = "alto" THEN Alto_get_lines(xml, labels)
                  ELSE Page_get_lines(xml)>>
    /\ pc' = "get_chars"
    /\ UNCHANGED <<opts, idx, failed, xml, labels, l, c, r, totals, groups, before,
                   runNo, first, calls>>

\* line 195, second call
parser_get_chars ==
    /\ pc = "get_chars"
    /\ \E addrs \in [1..Len(AllContent(xml)) -> Addresses] :
          stack' = Append(stack, IF parse = "alto" THEN Alto_get_chars(xml, normalization)
                                 ELSE Page_get_chars(xml, normalization, addrs))
    /\ pc' = "get_regions"
    /\ UNCHANGED <<opts, idx, failed, xml, labels, l, c, r, totals, groups, before,
                   runNo, first, calls>>

\* line 195, third call and the assignment of l, c, r
parser_get_regions ==
    /\ pc = "get_regions"
    /\ l' = stack[1]
    /\ c' = stack[2]
    /\ r' = IF parse = "alto" THEN Alto_get_regions(xml, labels)
            ELSE Page_get_regions(xml)
    /\ stack' = <<>>
    /\ pc' = "update"
    /\ UNCHANGED <<opts, idx, failed, xml, labels, totals, groups, before,
                   runNo, first, calls>>

\* an exception raised inside one of line 195's calls; run() has no handler
Raise ==
    /\ pc \in {"get_lines", "get_chars", "get_regions"}
    /\ failed' = pc
    /\ pc' = "aborted"
    /\ UNCHANGED <<opts, idx, locals, totals, groups, before, runNo, first, calls>>

\* group_x[dirname].update(counter) on a defaultdict(Counter)
GroupOverwrite(g, dir, counter) ==
    [d \in DOMAIN g \cup {dir} |->
        IF d = dir THEN counter ELSE g[d]]

group_update(g, dir, counter) ==
    [d \in DOMAIN g \cup {dir} |->
        IF d = dir THEN Counter_update(dict_get(g, d, EmptyCounter), counter) ELSE g[d]]

\* lines 197-206
update ==
    /\ pc = "update"
    /\ IF group
       THEN /\ group_chars' = group_update(group_chars, dirname(files[idx]), c)
            /\ group_lines' = group_update(group_lines, dirname(files[idx]), l)
            /\ group_regns' = group_update(group_regns, dirname(files[idx]), r)
       ELSE UNCHANGED groups
    /\ total_chars' = Counter_update(total_chars, c)
    /\ total_lines' = Counter_update(total_lines, l)
    /\ total_regns' = Counter_update(total_regns, r)
    /\ idx' = idx + 1
    /\ pc' = "loop"
    /\ UNCHANGED <<opts, failed, locals, before, runNo, first, calls>>

\* the loop is exhausted: lines 208-269 read the counters and change none
report ==
    /\ pc = "loop" /\ idx > Len(files)
    /\ pc' = "done"
    /\ UNCHANGED <<opts, idx, failed, locals, totals, groups, before, runNo, first, calls>>

Next ==
    \/ parser_parse
    \/ parser_get_lines
    \/ parser_get_chars
    \/ parser_get_regions
    \/ Raise
    \/ update
    \/ report

Spec == Init /\ [][Next]_vars

\* ------------------------------------------------- what the files contain
\* the documents of the files processed so far, in order
Processed == [k \in 1..(idx - 1) |-> ReadFile(parse, files[k])]

\* the ID/LABEL pairs the OtherTag elements of a document declare
DeclaredPairs(doc) ==
    {<<doc.OtherTag[i].attrib.ID, doc.OtherTag[i].attrib.LABEL>> :
        i \in 1..Len(doc.OtherTag)}

TablePairs(table) == {<<k, table[k]>> : k \in DOMAIN table}

\* the label a document's own declarations give to a reference
OwnLabel(doc, ref) ==
    IF \E pr \in DeclaredPairs(doc) : pr[1] = ref
    THEN (CHOOSE pr \in DeclaredPairs(doc) : pr[1] = ref)[2]
    ELSE UNKNOWN_SEGMENT_TYPE

\* the label of an element read with the declarations of its own document
OwnElementLabel(doc, attrib) ==
    IF parse = "alto"
    THEN OwnLabel(doc, IF "TAGREFS" \in DOMAIN attrib THEN attrib.TAGREFS
                       ELSE TAGREFS_DEFAULT)
    ELSE Page_label(attrib)

\* number of elements of the list with the given label
LabelCount(doc, elements, label) ==
    Cardinality({i \in 1..Len(elements) : OwnElementLabel(doc, elements[i].attrib) = label})

\* occurrences of a label among the line (region) elements of files 1..idx-1
RECURSIVE LinesSoFar(_, _)
LinesSoFar(n, label) ==
    IF n = 0 THEN 0
    ELSE LabelCount(Processed[n], Processed[n].TextLine, label) + LinesSoFar(n - 1, label)

RECURSIVE RegionsSoFar(_, _)
RegionsSoFar(n, label) ==
    IF n = 0 THEN 0
    ELSE LabelCount(Processed[n], Processed[n].Region, label) + RegionsSoFar(n - 1, label)

RECURSIVE LineElementsSoFar(_)
LineElementsSoFar(n) ==
    IF n = 0 THEN 0 ELSE Len(Processed[n].TextLine) + LineElementsSoFar(n - 1)

\* a counter holds exactly the given positive counts
Holds(counter, Count(_), keys) ==
    /\ \A k \in DOMAIN counter : counter[k] > 0 /\ counter[k] = Count(k)
    /\ \A k \in keys : Count(k) > 0 => k \in DOMAIN counter

\* every label an element of the file system can get
AllLabels ==
    {UNKNOWN_SEGMENT_TYPE, S_heading, S_default, S_marginalia}

\* ------------------------------------------------------------------- C1
\* C1: when parse, get_lines, get_chars or get_regions raises for file k,
\* no counter, global or per directory, has changed since file k began, the
\* line and region counters hold exactly the elements of files 1..k-1, the
\* calls after the failing one have produced nothing, and the run has stopped
\* at file k.
C1_AbortIsAtomic ==
    pc = "aborted" =>
        /\ idx \in 1..Len(files)
        /\ Snapshot = before
        /\ LET CL(k) == LinesSoFar(idx - 1, k)
               CR(k) == RegionsSoFar(idx - 1, k)
           IN /\ Holds(total_lines, CL, AllLabels)
              /\ Holds(total_regns, CR, AllLabels)
        /\ Len(stack) = (CASE failed = "parse" -> 0
                           [] failed = "get_lines" -> 0
                           [] failed = "get_chars" -> 1
                           [] failed = "get_regions" -> 2)
        /\ ~ENABLED Next

C1_Witness ==
    /\ pc = "aborted" /\ failed = "get_chars" /\ idx = 2
    /\ total_lines # EmptyCounter /\ stack # <<>>

\* ------------------------------------------------------------------- C6
\* C6: after the files processed so far, the values of the global lines
\* counter sum to the number of line elements of those files, no key maps to
\* zero, and the map get_lines returned for a file sums to that file's
\* number of line elements (an empty map for a file without lines).
C6_LineSum ==
    /\ sum_values(total_lines) = LineElementsSoFar(idx - 1)
    /\ \A k \in DOMAIN total_lines : total_lines[k] > 0
    /\ pc = "update" =>
          /\ sum_values(l) = Len(xml.TextLine)
          /\ xml.TextLine = <<>> => l = EmptyCounter

C6_Witness ==
    /\ pc = "done" /\ Len(files) = 2
    /\ sum_values(total_lines) = 6
    /\ Cardinality(DOMAIN total_lines) = 3

\* ------------------------------------------------------------------- C9
\* C9: while a file is being queried, the ALTO label table holds exactly the
\* ID/LABEL pairs its own OtherTag elements declare, and the maps returned by
\* get_lines and get_regions are those its own declarations give, whatever
\* files were parsed before.
C9_LabelTablePerDocument ==
    (parse = "alto" /\ pc \in {"get_lines", "get_chars", "get_regions", "update"}) =>
        /\ xml = ReadFile(parse, files[idx])
        /\ TablePairs(labels) = DeclaredPairs(xml)
        /\ pc = "update" =>
              LET CL(k) == LabelCount(xml, xml.TextLine, k)
                  CR(k) == LabelCount(xml, xml.Region, k)
              IN /\ Holds(l, CL, AllLabels)
                 /\ Holds(r, CR, AllLabels)

\* the second file refers to T1, which only the first file declares
C9_Witness ==
    /\ parse = "alto" /\ pc = "update" /\ idx = 2
    /\ files = <<F_da, F_db>>
    /\ S_heading \notin DOMAIN l
    /\ UNKNOWN_SEGMENT_TYPE \in DOMAIN l

\* ------------------------------------------------------------------ C10
\* the directory part of each file name, as given
DirectoryOf(name) ==
    CASE name = F_b -> <<>>
      [] name \in {F_da, F_db} -> <<"d">>
      [] name \in {F_ea, F_eb} -> <<"e">>

RECURSIVE SumGroups(_, _, _)
SumGroups(g, D, k) ==
    IF D = {} THEN 0
    ELSE LET d == CHOOSE x \in D : TRUE
         IN dict_get(g[d], k, 0) + SumGroups(g, D \ {d}, k)

GroupsAddUp(total, g) ==
    \A k \in DOMAIN total \cup UNION {DOMAIN g[d] : d \in DOMAIN g} :
        dict_get(total, k, 0) = SumGroups(g, DOMAIN g, k)

NeverDecreases(old, new) ==
    \A k \in DOMAIN old : k \in DOMAIN new /\ new[k] >= old[k]

GroupNeverDecreases(old, new) ==
    \A d \in DOMAIN old : d \in DOMAIN new /\ NeverDecreases(old[d], new[d])

\* the line (region) elements with a label among the processed files of a
\* directory
RECURSIVE DirLinesSoFar(_, _, _)
DirLinesSoFar(n, d, label) ==
    IF n = 0 THEN 0
    ELSE (IF DirectoryOf(files[n]) = d
          THEN LabelCount(Processed[n], Processed[n].TextLine, label) ELSE 0)
         + DirLinesSoFar(n - 1, d, label)

\* C10: with grouping, after every step of the run each global count is the
\* sum of that key's counts over the directory groups, for lines, regions
\* and characters; the groups are the directories of the files processed,
\* each holding the lines of its own files; and no count of a global or a
\* group map ever decreases.
C10_GroupsConsistent ==
    /\ [](group =>
            /\ GroupsAddUp(total_lines, group_lines)
            /\ GroupsAddUp(total_regns, group_regns)
            /\ GroupsAddUp(total_chars, group_chars)
            /\ DOMAIN group_lines = {DirectoryOf(files[k]) : k \in 1..(idx - 1)}
            /\ DOMAIN group_regns = DOMAIN group_lines
            /\ DOMAIN group_chars = DOMAIN group_lines
            /\ \A d \in DOMAIN group_lines :
                  LET CL(k) == DirLinesSoFar(idx - 1, d, k)
                  IN Holds(group_lines[d], CL, AllLabels))
    /\ [][/\ NeverDecreases(total_lines, total_lines')
          /\ NeverDecreases(total_regns, total_regns')
          /\ NeverDecreases(total_chars, total_chars')
          /\ GroupNeverDecreases(group_lines, group_lines')
          /\ GroupNeverDecreases(group_regns, group_regns')
          /\ GroupNeverDecreases(group_chars, group_chars')]_vars

C10_Witness ==
    /\ group /\ pc = "done" /\ files = <<F_da, F_db>>
    /\ DOMAIN group_lines = {<<"d">>}
    /\ sum_values(group_lines[<<"d">>]) = 4
    /\ group_chars[<<"d">>] # EmptyCounter

\* ------------------------------------------------------------------- C2
\* C2: the map Page2019Parser.get_chars returns is the count of the texts
\* of the document's Unicode elements, normalized, without spaces: the map
\* Alto4Parser.get_chars returns for the same texts.
C2_PageCharsCountTheText ==
    (parse = "page" /\ pc = "get_regions") =>
        stack[2] = Alto_get_chars(xml, normalization)

\* ------------------------------------------------------------------- C5
\* the space character is a key of no character counter
NoSpaceKey ==
    /\ " " \notin DOMAIN total_chars
    /\ " " \notin DOMAIN c
    /\ \A d \in DOMAIN group_chars : " " \notin DOMAIN group_chars[d]
    /\ pc = "get_regions" => " " \notin DOMAIN stack[2]

\* C5: for both dialects and every normalization form no character map,
\* returned, global or per directory, has the space character as a key, and
\* a document whose text is "a b c" contributes exactly {a: 1, b: 1, c: 1}.
C5_NoSpaceAndExample ==
    /\ NoSpaceKey
    /\ (pc = "get_regions" /\ AllContent(xml) = <<S_abc>>) =>
          stack[2] = ("a" :> 1 @@ "b" :> 1 @@ "c" :> 1)

\* ------------------------------------------------------------------- C7
\* line 172: run() called again on a permutation of the same arguments,
\* with the same options
IsPermutation(p, q) ==
    /\ Len(p) = Len(q)
    /\ \E f \in [1..Len(p) -> 1..Len(p)] :
          /\ \A i, j \in 1..Len(p) : f[i] = f[j] => i = j
          /\ \A i \in 1..Len(p) : q[i] = p[f[i]]

Rerun ==
    /\ pc = "done" /\ runNo = 1
    /\ first' = Snapshot
    /\ runNo' = 2
    /\ files' \in {q \in [1..Len(files) -> {files[i] : i \in 1..Len(files)}] :
                      IsPermutation(files, q)}
    /\ idx' = 1 /\ pc' = "loop" /\ failed' = ""
    /\ xml' = NoDoc /\ labels' = NoAttrib /\ stack' = <<>>
    /\ l' = EmptyCounter /\ c' = EmptyCounter /\ r' = EmptyCounter
    /\ total_chars' = EmptyCounter /\ total_lines' = EmptyCounter
    /\ total_regns' = EmptyCounter
    /\ group_chars' = NoAttrib /\ group_lines' = NoAttrib /\ group_regns' = NoAttrib
    /\ before' = [total_chars |-> EmptyCounter, total_lines |-> EmptyCounter,
                  total_regns |-> EmptyCounter, group_chars |-> NoAttrib,
                  group_lines |-> NoAttrib, group_regns |-> NoAttrib]
    /\ UNCHANGED <<parse, group, normalization, calls>>

NextPerm == Next \/ Rerun

SpecPerm == Init /\ [][NextPerm]_vars

\* C7: the run over any permutation of the files ends with the same global
\* and per-directory lines, regions and characters maps, for either dialect.
C7_OrderIndependent ==
    (runNo = 2 /\ pc = "done") => Snapshot = first

\* what holds of every run: the order changes no map of Alto4Parser and no
\* lines or regions map of Page2019Parser
OrderIndependentButPageChars ==
    (runNo = 2 /\ pc = "done") =>
        /\ total_lines = first.total_lines /\ total_regns = first.total_regns
        /\ group_lines = first.group_lines /\ group_regns = first.group_regns
        /\ parse = "alto" => Snapshot = first
        /\ sum_values(total_chars) = sum_values(first.total_chars)

\* ------------------------------------------------- single calls of methods
\* The methods of the parsers called once on an enumerated argument: a
\* custom attribute value, a document of tag declarations and references, a
\* document of text under a normalization form.
CodePoints == {"a", " ", "U0301", "U00E1", "U00A0"}

\* the pieces of a text between line separators "|"
RECURSIVE SplitLines(_)
SplitLines(text) ==
    LET i == FindFirst(text, <<"|">>)
    IN IF i = 0 THEN <<text>>
       ELSE <<SubSeq(text, 1, i - 1)>> \o SplitLines(SubSeq(text, i + 1, Len(text)))

\* a document whose lines hold one text value each
TextDoc(values) ==
    [wf |-> TRUE, OtherTag |-> <<>>,
     TextLine |-> [i \in 1..Len(values) |-> Line(NoAttrib, <<values[i]>>)],
     Region |-> <<>>]

TextDocs == {TextDoc(SplitLines(text)) : text \in SeqUpTo(CodePoints \cup {"|"}, MaxText)}

TagDeclarations ==
    {Element([ID |-> S_T1, LABEL |-> S_heading]),
     Element([ID |-> TAGREFS_DEFAULT, LABEL |-> S_default])}

References ==
    {NoAttrib, [TAGREFS |-> S_T1], [TAGREFS |-> S_T9], [TAGREFS |-> TAGREFS_DEFAULT]}

\* a document with the same references on its lines and on its regions
LabelDoc(tags, refs) ==
    [wf |-> TRUE, OtherTag |-> tags,
     TextLine |-> [i \in 1..Len(refs) |-> Line(refs[i], <<>>)],
     Region |-> [i \in 1..Len(refs) |-> Element(refs[i])]]

LabelDocs ==
    {LabelDoc(tags, refs) : tags \in SeqUpTo(TagDeclarations, MaxLines),
                            refs \in SeqUpTo(References, MaxLines)}

Fragments == {<<"a">>, <<" ">>, <<";">>, <<"}">>, CUSTOM_PREFIX}

Payloads == {join(fs) : fs \in SeqUpTo(Fragments, MaxFrag)}

CustomValues == Payloads \cup {CUSTOM_PREFIX \o p \o CUSTOM_SUFFIX : p \in Payloads}

CallArgs ==
    {[op |-> "custom", value |-> v] : v \in CustomValues}
    \cup {[op |-> "labels", doc |-> d] : d \in LabelDocs}
    \cup {[op |-> "chars", doc |-> d, nf |-> n] : d \in TextDocs, n \in NormalizationForms}

InitCall ==
    /\ parse = "alto" /\ files = <<>> /\ group = FALSE /\ normalization = "None"
    /\ RunStart
    /\ runNo = 1 /\ first = Snapshot
    /\ arg \in CallArgs /\ ret = <<>> /\ fpc = "call"

idle == <<opts, idx, pc, failed, locals, totals, groups, before, runNo, first>>

\* Page2019Parser._handle_custom_type(value)
call_handle_custom_type ==
    /\ fpc = "call" /\ arg.op = "custom"
    /\ ret' = handle_custom_type(arg.value)
    /\ fpc' = "return"
    /\ UNCHANGED <<idle, arg>>

\* Alto4Parser: parse, then get_lines and get_regions
call_alto_labels ==
    /\ fpc = "call" /\ arg.op = "labels"
    /\ ~Alto_parse_raises(arg.doc)
    /\ LET table == Alto_parse_labels(NoAttrib, arg.doc)
       IN ret' = [lines |-> Alto_get_lines(arg.doc, table),
                  regions |-> Alto_get_regions(arg.doc, table)]
    /\ fpc' = "return"
    /\ UNCHANGED <<idle, arg>>

\* Alto4Parser(normalization).get_chars
call_alto_get_chars ==
    /\ fpc = "call" /\ arg.op = "chars"
    /\ ret' = Alto_get_chars(arg.doc, arg.nf)
    /\ fpc' = "return"
    /\ UNCHANGED <<idle, arg>>

NextCall ==
    \/ call_handle_custom_type
    \/ call_alto_labels
    \/ call_alto_get_chars

SpecCall == InitCall /\ [][NextCall]_vars

Returned(op) == fpc = "return" /\ arg.op = op

\* ------------------------------------------------------------------- C3
Declares(doc, id) == \E pr \in DeclaredPairs(doc) : pr[1] = id

\* the label of the claim as amended: only an element without TAGREFS is
\* looked up under "####"
AmendedLabel(doc, attrib) ==
    IF "TAGREFS" \in DOMAIN attrib
    THEN (IF Declares(doc, attrib.TAGREFS) THEN OwnLabel(doc, attrib.TAGREFS)
          ELSE UNKNOWN_SEGMENT_TYPE)
    ELSE OwnLabel(doc, TAGREFS_DEFAULT)

\* the label of the claim: an undeclared TAGREFS is looked up under "####"
\* as a missing one is
ClaimedLabel(doc, attrib) ==
    IF "TAGREFS" \in DOMAIN attrib /\ Declares(doc, attrib.TAGREFS)
    THEN OwnLabel(doc, attrib.TAGREFS)
    ELSE OwnLabel(doc, TAGREFS_DEFAULT)

CountBy(doc, elements, Label(_, _), k) ==
    Cardinality({i \in 1..Len(elements) : Label(doc, elements[i].attrib) = k})

ExampleDoc ==
    LabelDoc(<<Element([ID |-> S_T1, LABEL |-> S_heading])>>,
             <<[TAGREFS |-> S_T1], [TAGREFS |-> S_T9]>>)

\* C3 as stated: every TextLine and TextBlock whose TAGREFS is not declared
\* gets the label of an element without TAGREFS: the label declared for
\* "####" if there is one, else "Not specified".
C3_OneFallbackChain ==
    Returned("labels") =>
        LET CL(k) == CountBy(arg.doc, arg.doc.TextLine, ClaimedLabel, k)
            CR(k) == CountBy(arg.doc, arg.doc.Region, ClaimedLabel, k)
        IN /\ Holds(ret.lines, CL, AllLabels)
           /\ Holds(ret.regions, CR, AllLabels)

\* C3 (amended): a TextLine or TextBlock whose TAGREFS is declared gets the
\* declared label; one whose TAGREFS is not declared gets "Not specified",
\* whatever the table declares; one without TAGREFS gets the label declared
\* for "####" if there is one, else "Not specified". With the table
\* {T1: heading} and lines referring to T1 and to an undeclared reference,
\* get_lines returns {heading: 1, Not specified: 1}.
C3_FallbackOnlyWithoutTagrefs ==
    Returned("labels") =>
        LET CL(k) == CountBy(arg.doc, arg.doc.TextLine, AmendedLabel, k)
            CR(k) == CountBy(arg.doc, arg.doc.Region, AmendedLabel, k)
        IN /\ Holds(ret.lines, CL, AllLabels)
           /\ Holds(ret.regions, CR, AllLabels)
           /\ arg.doc = ExampleDoc =>
                 ret.lines = (S_heading :> 1 @@ UNKNOWN_SEGMENT_TYPE :> 1)

\* the table declares "####"; one line has an undeclared TAGREFS, one none
C3_Witness ==
    /\ Returned("labels")
    /\ Declares(arg.doc, TAGREFS_DEFAULT)
    /\ arg.doc.TextLine = <<Line([TAGREFS |-> S_T9], <<>>), Line(NoAttrib, <<>>)>>
    /\ ret.lines = (UNKNOWN_SEGMENT_TYPE :> 1 @@ S_default :> 1)

\* ------------------------------------------------------------------- C4
\* a value of the form prefix + LABEL + suffix, and its LABEL
OfCustomForm(value) ==
    /\ Len(value) >= Len(CUSTOM_PREFIX) + Len(CUSTOM_SUFFIX)
    /\ IsPrefix(CUSTOM_PREFIX, value)
    /\ SubSeq(value, Len(value) - 1, Len(value)) = CUSTOM_SUFFIX

CustomPayload(value) == SubSeq(value, Len(CUSTOM_PREFIX) + 1, Len(value) - 2)

\* C4: for every value "structure {type:" + LABEL + ";}" the label returned
\* is LABEL without its leading and trailing whitespace, nothing inside
\* LABEL being removed.
C4_LabelIsPayload ==
    (Returned("custom") /\ OfCustomForm(arg.value)) =>
        ret = strip(CustomPayload(arg.value))

\* what holds of the code: the label is the payload when the payload holds
\* neither the prefix nor the suffix
CustomLabelWithoutDelimiters ==
    (/\ Returned("custom") /\ OfCustomForm(arg.value)
     /\ FindFirst(CustomPayload(arg.value), CUSTOM_PREFIX) = 0
     /\ FindFirst(CustomPayload(arg.value), CUSTOM_SUFFIX) = 0) =>
        ret = strip(CustomPayload(arg.value))

\* ------------------------------------------------------------------- C8
Occurrences(ch, s) == Cardinality({i \in 1..Len(s) : s[i] = ch})

RECURSIVE OccurrencesPerValue(_, _, _)
OccurrencesPerValue(ch, nf, values) ==
    IF values = <<>> THEN 0
    ELSE Occurrences(ch, normalize(nf, Head(values)))
         + OccurrencesPerValue(ch, nf, Tail(values))

\* C8 as stated: the map is the count of the normal form of the whole
\* concatenated text without its spaces.
C8_NormalizedOnceAfterStripping ==
    Returned("chars") =>
        ret = Counter(normalize(arg.nf, str_remove(join(AllContent(arg.doc)), <<" ">>)))

\* C8 (amended): each CONTENT value is normalized on its own, before the
\* values are concatenated and before the spaces are removed: a character
\* other than the space is counted as often as it occurs in the normal forms
\* of the single values, and the space is not counted.
C8_NormalizedPerValue ==
    Returned("chars") =>
        LET CC(ch) == IF ch = " " THEN 0
                      ELSE OccurrencesPerValue(ch, arg.nf, AllContent(arg.doc))
        IN Holds(ret, CC, CodePoints)

\* "a" and the combining accent in two values are not composed under NFC
C8_Witness ==
    /\ Returned("chars") /\ arg.nf = "NFC"
    /\ AllContent(arg.doc) = <<<<"a">>, <<"U0301">>>>
    /\ ret = ("a" :> 1 @@ "U0301" :> 1)

====
